---------------------------- MODULE Spec2Model ----------------------------
(***************************************************************************)
(* The RDM transaction driver of examples/ola-rdm.cpp (RDMController),     *)
(* and the DMX handler of tools/dmx_trigger/dmx-trigger.cpp.               *)
(*                                                                         *)
(* One behaviour is one process run of ola_rdm_get / ola_rdm_set from the  *)
(* call of PerformRequestAndWait to its return.  The select server, the    *)
(* client connection, the PID store and the message codec are libraries    *)
(* outside the source file; they are modelled by what the driver needs     *)
(* of them.  The two programs are separate processes: a behaviour of one   *)
(* leaves the state of the other where it starts (Spec, DmxTriggerSpec).   *)
(***************************************************************************)
EXTENDS Integers, Sequences, FiniteSets, TLC

\* ------------------------------------------------------------------------
\* Bounds of the model.

\* The number of responses the daemon delivers in one run (caps the
\* unbounded queued-message draining).
MaxResponses == 3

\* The number of DMX frames the client hands dmx-trigger in one run.
MaxFrames == 3

\* ------------------------------------------------------------------------
\* Program constants.

PID_QUEUED_MESSAGE == 32
PID_STATUS_MESSAGES == 48

\* A pointer is NULL or points at one value.
NULL == <<>>
Ptr(x) == <<x>>
Deref(p) == p[1]

EXIT_OK == "EXIT_OK"
EXIT_USAGE == "EXIT_USAGE"

RDM_COMPLETED_OK == "RDM_COMPLETED_OK"
RDM_WAS_BROADCAST == "RDM_WAS_BROADCAST"
RDM_TIMEOUT == "RDM_TIMEOUT"

RDM_ACK == "RDM_ACK"
RDM_ACK_TIMER == "RDM_ACK_TIMER"
RDM_NACK_REASON == "RDM_NACK_REASON"
ACK_OVERFLOW == "ACK_OVERFLOW"

\* ------------------------------------------------------------------------
\* The PID store (PidStoreHelper): the descriptors known for a manufacturer.
\* A schema (ola::messaging::Descriptor) is NULL or points at the number of
\* fields (bytes) of the message; -1 is a variable-sized message.

EstaPids ==
  { [name |-> <<"Q","M">>, value |-> PID_QUEUED_MESSAGE,
     get_request |-> Ptr(1), set_request |-> NULL,
     get_response |-> Ptr(0), set_response |-> NULL],
    [name |-> <<"S","M">>, value |-> PID_STATUS_MESSAGES,
     get_request |-> Ptr(1), set_request |-> NULL,
     get_response |-> Ptr(-1), set_response |-> NULL],
    [name |-> <<"D","I">>, value |-> 96,
     get_request |-> Ptr(0), set_request |-> NULL,
     get_response |-> Ptr(1), set_response |-> NULL],
    [name |-> <<"I","D">>, value |-> 4096,
     get_request |-> Ptr(0), set_request |-> Ptr(1),
     get_response |-> Ptr(1), set_response |-> Ptr(0)] }

ManufacturerPids(manufacturer_id) ==
  IF manufacturer_id = 1
    THEN { [name |-> <<"M","F">>, value |-> 32768,
            get_request |-> NULL, set_request |-> Ptr(1),
            get_response |-> NULL, set_response |-> Ptr(0)] }
    ELSE {}

PidStore(manufacturer_id) == EstaPids \cup ManufacturerPids(manufacturer_id)

\* PidStoreHelper::GetDescriptor(name, manufacturer_id)
GetDescriptorByName(pid_name, manufacturer_id) ==
  IF \E d \in PidStore(manufacturer_id) : d.name = pid_name
    THEN Ptr(CHOOSE d \in PidStore(manufacturer_id) : d.name = pid_name)
    ELSE NULL

\* PidStoreHelper::GetDescriptor(pid_value, manufacturer_id)
GetDescriptorByValue(pid_value, manufacturer_id) ==
  IF \E d \in PidStore(manufacturer_id) : d.value = pid_value
    THEN Ptr(CHOOSE d \in PidStore(manufacturer_id) : d.value = pid_value)
    ELSE NULL

\* ------------------------------------------------------------------------
\* ola::PrefixedHexStringToInt and ola::StringToInt for a uint16_t.  A
\* string is a sequence of one-character strings; -1 is "false".

DecDigits == <<"0","1","2","3","4","5","6","7","8","9">>
HexDigits == DecDigits \o <<"a","b","c","d","e","f">>

DigitValue(c, digits) ==
  IF \E i \in 1..Len(digits) : digits[i] = c
    THEN (CHOOSE i \in 1..Len(digits) : digits[i] = c) - 1
    ELSE -1

RECURSIVE ParseDigits(_, _, _)
ParseDigits(s, digits, acc) ==
  IF s = <<>> THEN acc
  ELSE IF DigitValue(Head(s), digits) < 0 THEN -1
  ELSE ParseDigits(Tail(s), digits, acc * Len(digits) + DigitValue(Head(s), digits))

ToUInt16(s, digits) ==
  IF s = <<>> THEN -1
  ELSE IF ParseDigits(s, digits, 0) > 65535 THEN -1
  ELSE ParseDigits(s, digits, 0)

PrefixedHexStringToInt(s) ==
  IF Len(s) >= 2 /\ s[1] = "0" /\ s[2] = "x"
    THEN ToUInt16(SubSeq(s, 3, Len(s)), HexDigits)
    ELSE -1

StringToInt(s) == ToUInt16(s, DecDigits)

\* ------------------------------------------------------------------------
\* The message codec (PidStoreHelper::BuildMessage, SerializeMessage,
\* DeserializeMessage).  Every field of a schema is a number: building
\* fails when the argument count differs from the field count or an
\* argument is not a number.

ArgIsNumber(a) == StringToInt(a) >= 0

BuildMessage(descriptor, inputs) ==
  IF Len(inputs) = Deref(descriptor)
     /\ \A i \in 1..Len(inputs) : ArgIsNumber(inputs[i])
    THEN Ptr([i \in 1..Len(inputs) |-> StringToInt(inputs[i])])
    ELSE NULL

SerializeMessage(message) == Deref(message)

DeserializeMessage(descriptor, rdm_data) ==
  IF Deref(descriptor) = -1 \/ Len(rdm_data) = Deref(descriptor)
    THEN Ptr(rdm_data)
    ELSE NULL

\* ------------------------------------------------------------------------
\* The command lines of the model: what main() hands PerformRequestAndWait.

UIDs == { [manufacturer_id |-> 1, device_id |-> 1],
          [manufacturer_id |-> 2, device_id |-> 1] }

PidNames == { <<"Q","M">>, <<"S","M">>, <<"D","I">>, <<"M","F">>,
              <<"0","x","1","0","0","0">>, <<"9","6">>,
              <<"0","x","f","f">>, <<"0","x">>, <<"7","0","0","0","0">> }

InputLists == { <<>>, << <<"4">> >>, << <<"x">> >> }

Universes == {1, 2}
SubDevices == {0, 1}

Calls == [universe : Universes, uid : UIDs, sub_device : SubDevices,
          pid_name : PidNames, is_set : BOOLEAN, inputs : InputLists]

\* ------------------------------------------------------------------------
\* What the daemon can hand the completion callback: ola::rdm::ResponseStatus
\* and the parameter data.  m_param is the ack timer or the nack reason.

ResponsePids == {PID_QUEUED_MESSAGE, PID_STATUS_MESSAGES, 96, 32768}

\* A reply carries the fields of its kind; the others stay at their
\* defaults.  The response code and the response type vary in every kind.
ResponseCodes == {RDM_COMPLETED_OK, RDM_WAS_BROADCAST, RDM_TIMEOUT}
ResponseTypes == {RDM_ACK, RDM_ACK_TIMER, RDM_NACK_REASON, ACK_OVERFLOW}

DefaultResponse ==
  [error |-> "", response_code |-> RDM_COMPLETED_OK, response_type |-> RDM_ACK,
   pid_value |-> PID_QUEUED_MESSAGE, set_command |-> FALSE, m_param |-> 1,
   message_count |-> 0, rdm_data |-> <<>>]

\* The request failed in transport, or ended without a usable reply.
FailedResponses ==
  { [DefaultResponse EXCEPT !.error = e, !.response_code = c,
                            !.response_type = t, !.message_count = n] :
      e \in {"", "err"}, c \in ResponseCodes, t \in ResponseTypes,
      n \in {0, 1} }

\* An ack: a parameter, its command class and its data.
AckResponses ==
  { [DefaultResponse EXCEPT !.pid_value = p, !.set_command = s,
                            !.message_count = n, !.rdm_data = d] :
      p \in ResponsePids, s \in BOOLEAN, n \in {0, 1}, d \in {<<>>, <<0>>} }

\* An ack timer or a nack: the delay or the reason.
ParamResponses ==
  { [DefaultResponse EXCEPT !.response_type = t, !.pid_value = p,
                            !.m_param = m, !.message_count = n] :
      t \in {RDM_ACK_TIMER, RDM_NACK_REASON}, p \in ResponsePids,
      m \in {1, 2}, n \in {0, 1} }

Responses == FailedResponses \cup AckResponses \cup ParamResponses

\* ------------------------------------------------------------------------
\* State.

VARIABLES
  call,               \* the arguments of PerformRequestAndWait
  pc,                 \* where PerformRequestAndWait is
  pid_descriptor,     \* its local: NULL or the PidDescriptor
  descriptor,         \* its local: NULL or the request schema
  message,            \* its local: NULL or the built message
  m_pending_request,  \* NULL while not yet assigned
  outstanding,        \* requests sent whose callback has not run yet
  sent,               \* every request handed to the client, in order
  timers,             \* single timeouts registered and not yet fired
  terminate_calls,    \* calls of SelectServer::Terminate
  run_calls,          \* calls of SelectServer::Run
  response,           \* NULL or the arguments of the last HandleResponse
  delivered,          \* what each HandleResponse so far was handed
  log,                \* what the program did, in order
  status,             \* NULL or what PerformRequestAndWait returned
  dmx_pc,             \* where main() of dmx-trigger is
  our_universe,       \* NULL or the universe bound into the DMX callback
  dmx_received,       \* the frames the client handed the DMX callback
  trigger             \* the buffers DMXTrigger::NewDMX was called with

vars == <<call, pc, pid_descriptor, descriptor, message, m_pending_request,
          outstanding, sent, timers, terminate_calls, run_calls, response,
          delivered, log, status,
          dmx_pc, our_universe, dmx_received, trigger>>

locals == <<pid_descriptor, descriptor, message>>
client == <<outstanding, sent, timers, terminate_calls, run_calls>>
history == <<response, delivered>>
dmx_trigger == <<dmx_pc, our_universe, dmx_received, trigger>>

\* dmx-trigger before its main() has done anything.
DmxTriggerStart ==
  /\ dmx_pc = "main"
  /\ our_universe = NULL
  /\ dmx_received = <<>>
  /\ trigger = <<>>

Init ==
  /\ call \in Calls
  /\ pc = "GetDescriptor"
  /\ pid_descriptor = NULL
  /\ descriptor = NULL
  /\ message = NULL
  /\ m_pending_request = NULL
  /\ outstanding = <<>>
  /\ sent = <<>>
  /\ timers = <<>>
  /\ terminate_calls = 0
  /\ run_calls = 0
  /\ response = NULL
  /\ delivered = <<>>
  /\ log = <<>>
  /\ status = NULL
  /\ DmxTriggerStart

\* ------------------------------------------------------------------------
\* PerformRequestAndWait, up to the call of Run().

\* Lines 329-340: the descriptor by name, else by the number the name spells.
ResolvePid(pid_name, manufacturer_id) ==
  IF GetDescriptorByName(pid_name, manufacturer_id) # NULL
    THEN GetDescriptorByName(pid_name, manufacturer_id)
  ELSE IF PrefixedHexStringToInt(pid_name) >= 0
    THEN GetDescriptorByValue(PrefixedHexStringToInt(pid_name), manufacturer_id)
  ELSE IF StringToInt(pid_name) >= 0
    THEN GetDescriptorByValue(StringToInt(pid_name), manufacturer_id)
  ELSE NULL

\* Lines 329-346.
GetPidDescriptor ==
  /\ pc = "GetDescriptor"
  /\ pid_descriptor' = ResolvePid(call.pid_name, call.uid.manufacturer_id)
  /\ IF pid_descriptor' = NULL
       THEN /\ log' = log \o <<"cout_UnknownPID">>
            /\ status' = Ptr(EXIT_USAGE)
            /\ pc' = "returned"
       ELSE /\ pc' = "SelectSchema"
            /\ UNCHANGED <<log, status>>
  /\ UNCHANGED dmx_trigger
  /\ UNCHANGED <<call, descriptor, message, m_pending_request, client, history>>

\* SelectSchema with GetRequest() taken for a set as well.
SelectSchema_AlwaysGet ==
  /\ pc = "SelectSchema"
  /\ descriptor' = Deref(pid_descriptor).get_request
  /\ IF descriptor' = NULL
       THEN /\ log' = log \o <<"cout_NotSupported", "exit">>
            /\ status' = Ptr(EXIT_USAGE)
            /\ pc' = "exited"
       ELSE /\ pc' = "BuildMessage"
            /\ UNCHANGED <<log, status>>
  /\ UNCHANGED dmx_trigger
  /\ UNCHANGED <<call, pid_descriptor, message, m_pending_request, client,
                 history>>

\* Lines 348-358.  exit() ends the process with the usage status.
SelectSchema ==
  /\ pc = "SelectSchema"
  /\ descriptor' = IF call.is_set THEN Deref(pid_descriptor).set_request
                                  ELSE Deref(pid_descriptor).get_request
  /\ IF descriptor' = NULL
       THEN /\ log' = log \o <<"cout_NotSupported", "exit">>
            /\ status' = Ptr(EXIT_USAGE)
            /\ pc' = "exited"
       ELSE /\ pc' = "BuildMessage"
            /\ UNCHANGED <<log, status>>
  /\ UNCHANGED dmx_trigger
  /\ UNCHANGED <<call, pid_descriptor, message, m_pending_request, client,
                 history>>

\* Lines 360-368.
BuildRequest ==
  /\ pc = "BuildMessage"
  /\ message' = BuildMessage(descriptor, call.inputs)
  /\ IF message' = NULL
       THEN /\ log' = log \o <<"cout_SchemaAsString">>
            /\ status' = Ptr(EXIT_USAGE)
            /\ pc' = "returned"
       ELSE /\ pc' = "RecordPending"
            /\ UNCHANGED <<log, status>>
  /\ UNCHANGED dmx_trigger
  /\ UNCHANGED <<call, pid_descriptor, descriptor, m_pending_request, client,
                 history>>

\* Lines 370-373.
RecordPending ==
  /\ pc = "RecordPending"
  /\ m_pending_request' = Ptr([universe |-> call.universe,
                               uid |-> call.uid,
                               sub_device |-> call.sub_device,
                               pid_value |-> Deref(pid_descriptor).value])
  /\ log' = log \o <<"m_pending_request">>
  /\ pc' = "Submit"
  /\ UNCHANGED dmx_trigger
  /\ UNCHANGED <<call, locals, client, history, status>>

\* InitialRequest with RDMGet() called for a set as well.
InitialRequest_AlwaysGet ==
  [command |-> "RDMGet",
   universe |-> Deref(m_pending_request).universe,
   uid |-> Deref(m_pending_request).uid,
   sub_device |-> Deref(m_pending_request).sub_device,
   pid |-> Deref(pid_descriptor).value,
   data |-> SerializeMessage(message)]

\* The request lines 380-398 hand the client.
InitialRequest ==
  [command |-> IF call.is_set THEN "RDMSet" ELSE "RDMGet",
   universe |-> Deref(m_pending_request).universe,
   uid |-> Deref(m_pending_request).uid,
   sub_device |-> Deref(m_pending_request).sub_device,
   pid |-> Deref(pid_descriptor).value,
   data |-> SerializeMessage(message)]

\* Lines 375-398.
Submit ==
  /\ pc = "Submit"
  /\ outstanding' = Append(outstanding, InitialRequest)
  /\ sent' = Append(sent, InitialRequest)
  /\ log' = Append(log, InitialRequest.command)
  /\ pc' = "Run"
  /\ UNCHANGED dmx_trigger
  /\ UNCHANGED <<call, locals, m_pending_request, timers, terminate_calls,
                 run_calls, history, status>>

\* Line 400: Run() is entered and blocks.
Run ==
  /\ pc = "Run"
  /\ run_calls' = run_calls + 1
  /\ log' = Append(log, "Run")
  /\ pc' = "running"
  /\ UNCHANGED dmx_trigger
  /\ UNCHANGED <<call, locals, m_pending_request, outstanding, sent, timers,
                 terminate_calls, history, status>>

\* ------------------------------------------------------------------------
\* The callbacks.  A callback is the sequence of the steps it takes: what
\* it prints and which calls it makes on the select server and the client.

Count(steps, step) == Cardinality({i \in 1..Len(steps) : steps[i] = step})
Repeat(x, n) == [i \in 1..n |-> x]

\* PrintRemainingMessages with the test of the count inverted.
PrintRemainingMessages_Inverted(message_count) ==
  IF message_count # 0
    THEN <<"PrintRemainingMessages">>
    ELSE <<"PrintRemainingMessages", "cout_MessagesRemaining">>

\* Lines 424-429.
PrintRemainingMessages(message_count) ==
  IF message_count = 0
    THEN <<"PrintRemainingMessages">>
    ELSE <<"PrintRemainingMessages", "cout_MessagesRemaining">>

\* HandleAckResponse without the test of the inflated message.
HandleAckResponse_NoInflateCheck(manufacturer_id, is_set, pid, rdm_data) ==
  LET ack_pid_descriptor ==
        GetDescriptorByValue(pid, Deref(m_pending_request).uid.manufacturer_id)
      ack_descriptor ==
        IF is_set THEN Deref(ack_pid_descriptor).set_response
                  ELSE Deref(ack_pid_descriptor).get_response
  IN  <<"HandleAckResponse">> \o
      (IF ack_pid_descriptor = NULL THEN <<"OLA_WARN_UnknownPID">>
       ELSE IF ack_descriptor = NULL THEN <<"OLA_WARN_UnknownResponseMessage">>
       ELSE <<"cout_PrettyPrintMessage">>)

\* Lines 435-475.
HandleAckResponse(manufacturer_id, is_set, pid, rdm_data) ==
  LET ack_pid_descriptor ==
        GetDescriptorByValue(pid, Deref(m_pending_request).uid.manufacturer_id)
      ack_descriptor ==
        IF is_set THEN Deref(ack_pid_descriptor).set_response
                  ELSE Deref(ack_pid_descriptor).get_response
  IN  <<"HandleAckResponse">> \o
      (IF ack_pid_descriptor = NULL THEN <<"OLA_WARN_UnknownPID">>
       ELSE IF ack_descriptor = NULL THEN <<"OLA_WARN_UnknownResponseMessage">>
       ELSE IF DeserializeMessage(ack_descriptor, rdm_data) = NULL
         THEN <<"OLA_WARN_UnableToInflate">>
       ELSE <<"cout_PrettyPrintMessage">>)

\* AckIsForRequest with the queued-message test on the ack's parameter.
AckIsForRequest_AckPid(r) ==
  \/ r.pid_value = Deref(m_pending_request).pid_value
  \/ r.pid_value = PID_QUEUED_MESSAGE

\* AckIsForRequest without the test for a request of the queued messages.
AckIsForRequest_PidOnly(r) ==
  r.pid_value = Deref(m_pending_request).pid_value

\* Lines 289-290: the ack answers the request, or anything answers a request
\* for the queued messages.
AckIsForRequest(r) ==
  \/ r.pid_value = Deref(m_pending_request).pid_value
  \/ Deref(m_pending_request).pid_value = PID_QUEUED_MESSAGE

\* MoreToFetch with && for ||.
MoreToFetch_And(r) ==
  r.pid_value # PID_STATUS_MESSAGES /\ Len(r.rdm_data) # 0

\* MoreToFetch with the test of the size inverted.
MoreToFetch_SizeFlipped(r) ==
  r.pid_value # PID_STATUS_MESSAGES \/ Len(r.rdm_data) = 0

\* Lines 298-299: anything but an empty STATUS_MESSAGES.
MoreToFetch(r) ==
  r.pid_value # PID_STATUS_MESSAGES \/ Len(r.rdm_data) # 0

\* FinalSteps with Terminate() called before the count is printed.
FinalSteps_TerminateFirst(r) ==
  <<"Terminate">> \o PrintRemainingMessages(r.message_count)

\* FinalSteps without the call of Terminate().
FinalSteps_NoTerminate(r) == PrintRemainingMessages(r.message_count)

\* Lines 314-315: how a callback that falls off the if-chain ends.
FinalSteps(r) == PrintRemainingMessages(r.message_count) \o <<"Terminate">>

\* AckSteps without the return that follows FetchQueuedMessage().
AckSteps_NoReturn(r) ==
  IF AckIsForRequest(r)
    THEN HandleAckResponse(Deref(m_pending_request).uid.manufacturer_id,
                           r.set_command, r.pid_value, r.rdm_data)
         \o FinalSteps(r)
  ELSE (IF MoreToFetch(r) THEN <<"FetchQueuedMessage">> ELSE <<>>)
       \o <<"cout_EmptyStatusMessages">> \o FinalSteps(r)

\* Lines 288-306 and, where the branch does not return, lines 314-315.
AckSteps(r) ==
  IF AckIsForRequest(r)
    THEN HandleAckResponse(Deref(m_pending_request).uid.manufacturer_id,
                           r.set_command, r.pid_value, r.rdm_data)
         \o FinalSteps(r)
  ELSE IF MoreToFetch(r)
    THEN <<"FetchQueuedMessage">>
  ELSE <<"cout_EmptyStatusMessages">> \o FinalSteps(r)

\* TypeSteps with the request resent at once as well as on the timeout.
TypeSteps_TimerAndFetch(r) ==
  IF r.response_type = RDM_ACK_TIMER
    THEN <<"RegisterSingleTimeout", "FetchQueuedMessage">>
  ELSE IF r.response_type = RDM_ACK THEN AckSteps(r)
  ELSE IF r.response_type = RDM_NACK_REASON
    THEN <<"cout_RequestNACKed">> \o FinalSteps(r)
  ELSE <<"cout_UnknownResponseType">> \o FinalSteps(r)

\* TypeSteps without the return that follows RegisterSingleTimeout().
TypeSteps_NoReturnAfterTimer(r) ==
  IF r.response_type = RDM_ACK_TIMER
    THEN <<"RegisterSingleTimeout", "cout_UnknownResponseType">>
         \o FinalSteps(r)
  ELSE IF r.response_type = RDM_ACK THEN AckSteps(r)
  ELSE IF r.response_type = RDM_NACK_REASON
    THEN <<"cout_RequestNACKed">> \o FinalSteps(r)
  ELSE <<"cout_UnknownResponseType">> \o FinalSteps(r)

\* Lines 281-316: the response type decides.
TypeSteps(r) ==
  IF r.response_type = RDM_ACK_TIMER THEN <<"RegisterSingleTimeout">>
  ELSE IF r.response_type = RDM_ACK THEN AckSteps(r)
  ELSE IF r.response_type = RDM_NACK_REASON
    THEN <<"cout_RequestNACKed">> \o FinalSteps(r)
  ELSE <<"cout_UnknownResponseType">> \o FinalSteps(r)

\* HandleResponseSteps without the branch for RDM_WAS_BROADCAST.
HandleResponseSteps_NoBroadcast(r) ==
  IF r.error # "" THEN <<"cerr_Error", "Terminate">>
  ELSE IF r.response_code # RDM_COMPLETED_OK
    THEN <<"cerr_ResponseCode", "Terminate">>
  ELSE TypeSteps(r)

\* HandleResponseSteps without the return that ends the error branch.
HandleResponseSteps_NoReturnAfterError(r) ==
  (IF r.error # "" THEN <<"cerr_Error", "Terminate">> ELSE <<>>)
  \o (IF r.response_code = RDM_WAS_BROADCAST THEN <<"Terminate">>
      ELSE IF r.response_code # RDM_COMPLETED_OK
        THEN <<"cerr_ResponseCode", "Terminate">>
      ELSE TypeSteps(r))

\* HandleResponseSteps with the response code tested before the error.
HandleResponseSteps_CodeFirst(r) ==
  IF r.response_code = RDM_WAS_BROADCAST THEN <<"Terminate">>
  ELSE IF r.error # "" THEN <<"cerr_Error", "Terminate">>
  ELSE IF r.response_code # RDM_COMPLETED_OK
    THEN <<"cerr_ResponseCode", "Terminate">>
  ELSE TypeSteps(r)

\* Lines 262-316.
HandleResponseSteps(r) ==
  IF r.error # "" THEN <<"cerr_Error", "Terminate">>
  ELSE IF r.response_code = RDM_WAS_BROADCAST THEN <<"Terminate">>
  ELSE IF r.response_code # RDM_COMPLETED_OK
    THEN <<"cerr_ResponseCode", "Terminate">>
  ELSE TypeSteps(r)

\* FetchQueuedMessage resending the request for the pending parameter.
FetchQueuedMessage_Resend ==
  [command |-> "RDMGet",
   universe |-> Deref(m_pending_request).universe,
   uid |-> Deref(m_pending_request).uid,
   sub_device |-> Deref(m_pending_request).sub_device,
   pid |-> Deref(m_pending_request).pid_value,
   data |-> <<4>>]

\* Lines 408-418: the request FetchQueuedMessage hands the client.
FetchQueuedMessage ==
  [command |-> "RDMGet",
   universe |-> Deref(m_pending_request).universe,
   uid |-> Deref(m_pending_request).uid,
   sub_device |-> Deref(m_pending_request).sub_device,
   pid |-> PID_QUEUED_MESSAGE,
   data |-> <<4>>]

\* Lines 282-284: the timeout HandleResponse registers.
AckTimerTimeout(r) == [delay |-> r.m_param, callback |-> "FetchQueuedMessage"]

\* What the history keeps of a response.
Delivered(r) ==
  [error |-> r.error,
   response_code |-> r.response_code,
   response_type |-> r.response_type,
   ack_other_pid |-> /\ r.response_type = RDM_ACK
                     /\ r.pid_value # Deref(m_pending_request).pid_value,
   ack_data |-> r.response_type = RDM_ACK /\ r.rdm_data # <<>>]

\* The client runs the completion callback of the oldest outstanding
\* request (a single-use callback) from within Run().
HandleResponse ==
  /\ pc = "running"
  /\ outstanding # <<>>
  /\ Len(delivered) < MaxResponses
  /\ \E r \in Responses :
       LET steps == HandleResponseSteps(r) IN
       /\ response' = Ptr(r)
       /\ delivered' = Append(delivered, Delivered(r))
       /\ log' = log \o <<"HandleResponse">> \o steps
       /\ terminate_calls' = terminate_calls + Count(steps, "Terminate")
       /\ outstanding' = Tail(outstanding) \o
            Repeat(FetchQueuedMessage, Count(steps, "FetchQueuedMessage"))
       /\ sent' = sent \o
            Repeat(FetchQueuedMessage, Count(steps, "FetchQueuedMessage"))
       /\ timers' = timers \o
            Repeat(AckTimerTimeout(r), Count(steps, "RegisterSingleTimeout"))
  /\ UNCHANGED dmx_trigger
  /\ UNCHANGED <<call, pc, locals, m_pending_request, run_calls, status>>

\* Timeout with FetchQueuedMessage recording the fetch as the pending request.
Timeout_RecordsFetch ==
  /\ pc = "running"
  /\ timers # <<>>
  /\ timers' = Tail(timers)
  /\ outstanding' = Append(outstanding, FetchQueuedMessage)
  /\ sent' = Append(sent, FetchQueuedMessage)
  /\ m_pending_request' =
       Ptr([Deref(m_pending_request) EXCEPT !.pid_value = PID_QUEUED_MESSAGE])
  /\ log' = log \o <<"Timeout", "FetchQueuedMessage">>
  /\ UNCHANGED dmx_trigger
  /\ UNCHANGED <<call, pc, locals, terminate_calls, run_calls, history,
                 status>>

\* The select server runs a registered timeout, once, from within Run():
\* the callback is FetchQueuedMessage (lines 408-418).
Timeout ==
  /\ pc = "running"
  /\ timers # <<>>
  /\ timers' = Tail(timers)
  /\ outstanding' = Append(outstanding, FetchQueuedMessage)
  /\ sent' = Append(sent, FetchQueuedMessage)
  /\ log' = log \o <<"Timeout", "FetchQueuedMessage">>
  /\ UNCHANGED dmx_trigger
  /\ UNCHANGED <<call, pc, locals, m_pending_request, terminate_calls,
                 run_calls, history, status>>

\* Return with the usage status for a transaction the device rejected.
Return_RejectionFails ==
  /\ pc = "running"
  /\ terminate_calls > 0
  /\ log' = Append(log, "return")
  /\ status' = IF Deref(response).error = ""
                  /\ Deref(response).response_code \in
                       {RDM_COMPLETED_OK, RDM_WAS_BROADCAST}
                  /\ Deref(response).response_type = RDM_ACK
                 THEN Ptr(EXIT_OK) ELSE Ptr(EXIT_USAGE)
  /\ pc' = "returned"
  /\ UNCHANGED dmx_trigger
  /\ UNCHANGED <<call, locals, m_pending_request, client, history>>

\* Lines 400-401: Run() returns once Terminate() was called, and
\* PerformRequestAndWait returns.
Return ==
  /\ pc = "running"
  /\ terminate_calls > 0
  /\ log' = Append(log, "return")
  /\ status' = Ptr(EXIT_OK)
  /\ pc' = "returned"
  /\ UNCHANGED dmx_trigger
  /\ UNCHANGED <<call, locals, m_pending_request, client, history>>

Next ==
  \/ GetPidDescriptor
  \/ SelectSchema
  \/ BuildRequest
  \/ RecordPending
  \/ Submit
  \/ Run
  \/ HandleResponse
  \/ Timeout
  \/ Return

Spec == Init /\ [][Next]_vars

\* The program runs on, and the select server, while Run() has not returned,
\* runs the completion callback of every request and every registered
\* timeout, and lets Run() return once Terminate() was called.
RunsOn ==
  \/ GetPidDescriptor
  \/ SelectSchema
  \/ BuildRequest
  \/ RecordPending
  \/ Submit
  \/ Run

\* The universe and the sub device play no part in how a transaction
\* ends: the fair runs take one of each.
FairInit ==
  /\ Init
  /\ call.universe = 1
  /\ call.sub_device = 0

FairSpec ==
  /\ FairInit
  /\ [][Next]_vars
  /\ WF_vars(RunsOn)
  /\ WF_vars(HandleResponse)
  /\ WF_vars(Timeout)
  /\ WF_vars(Return)

\* ------------------------------------------------------------------------
\* dmx-trigger: main() and the DMX handler.

\* What the client can hand the DMX callback: the universe of the frame,
\* its data and the error text.
DmxUniverses == {1, 2}
DmxBuffers == { <<0>>, <<255>> }
DmxErrors == {"", "err"}

\* ola-rdm while dmx-trigger runs: never called.
DmxTriggerInit ==
  /\ call = NULL
  /\ pc = "GetDescriptor"
  /\ pid_descriptor = NULL
  /\ descriptor = NULL
  /\ message = NULL
  /\ m_pending_request = NULL
  /\ outstanding = <<>>
  /\ sent = <<>>
  /\ timers = <<>>
  /\ terminate_calls = 0
  /\ run_calls = 0
  /\ response = NULL
  /\ delivered = <<>>
  /\ log = <<>>
  /\ status = NULL
  /\ DmxTriggerStart

\* Lines 216-272: opts.universe is 1 or what -u gave; the callback is
\* NewDmx with opts.universe and the trigger bound, and Run() is entered.
DmxTriggerMain ==
  /\ dmx_pc = "main"
  /\ \E universe \in DmxUniverses : our_universe' = Ptr(universe)
  /\ dmx_pc' = "running"
  /\ UNCHANGED <<dmx_received, trigger>>
  /\ UNCHANGED <<call, pc, locals, m_pending_request, client, history, log,
                 status>>

\* NewDmx calling the trigger whatever the error text is.
NewDmx_IgnoresError ==
  /\ dmx_pc = "running"
  /\ Len(dmx_received) < MaxFrames
  /\ \E universe \in DmxUniverses, data \in DmxBuffers, error \in DmxErrors :
       /\ dmx_received' = Append(dmx_received,
            [universe |-> universe, data |-> data, error |-> error])
       /\ trigger' = IF universe = Deref(our_universe)
                       THEN Append(trigger, data)
                       ELSE trigger
  /\ UNCHANGED <<dmx_pc, our_universe>>
  /\ UNCHANGED <<call, pc, locals, m_pending_request, client, history, log,
                 status>>

\* Lines 200-210: the client runs the DMX callback on a frame.
NewDmx ==
  /\ dmx_pc = "running"
  /\ Len(dmx_received) < MaxFrames
  /\ \E universe \in DmxUniverses, data \in DmxBuffers, error \in DmxErrors :
       /\ dmx_received' = Append(dmx_received,
            [universe |-> universe, data |-> data, error |-> error])
       /\ trigger' = IF universe = Deref(our_universe)
                       THEN (IF error = "" THEN Append(trigger, data)
                                           ELSE trigger)
                       ELSE trigger
  /\ UNCHANGED <<dmx_pc, our_universe>>
  /\ UNCHANGED <<call, pc, locals, m_pending_request, client, history, log,
                 status>>

DmxTriggerNext ==
  \/ DmxTriggerMain
  \/ NewDmx

DmxTriggerSpec == DmxTriggerInit /\ [][DmxTriggerNext]_vars

\* ------------------------------------------------------------------------
\* The vocabulary of the properties.

\* The last response and the recorded request.
R == Deref(response)
Pending == Deref(m_pending_request)

\* The outcomes of a response, by its raw fields.
IsTransportError(r) == r.error # ""
IsBroadcast(r) == r.error = "" /\ r.response_code = RDM_WAS_BROADCAST
IsProtocolError(r) ==
  r.error = "" /\ r.response_code \notin {RDM_WAS_BROADCAST, RDM_COMPLETED_OK}
IsCompleted(r) == r.error = "" /\ r.response_code = RDM_COMPLETED_OK
IsAckTimer(r) == IsCompleted(r) /\ r.response_type = RDM_ACK_TIMER
IsAck(r) == IsCompleted(r) /\ r.response_type = RDM_ACK
IsNackReason(r) == IsCompleted(r) /\ r.response_type = RDM_NACK_REASON
IsUnknownType(r) ==
  IsCompleted(r) /\ r.response_type \notin {RDM_ACK_TIMER, RDM_ACK, RDM_NACK_REASON}

\* An ack is authoritative for the request recorded as pending.
IsAuthoritativeAck(r) ==
  IsAck(r) /\ (r.pid_value = Pending.pid_value
               \/ Pending.pid_value = PID_QUEUED_MESSAGE)
IsEmptyStatusAck(r) ==
  IsAck(r) /\ ~IsAuthoritativeAck(r)
  /\ r.pid_value = PID_STATUS_MESSAGES /\ r.rdm_data = <<>>
IsQueueSignalAck(r) ==
  IsAck(r) /\ ~IsAuthoritativeAck(r)
  /\ ~(r.pid_value = PID_STATUS_MESSAGES /\ r.rdm_data = <<>>)
IsTerminal(r) ==
  \/ IsTransportError(r) \/ IsBroadcast(r) \/ IsProtocolError(r)
  \/ IsAuthoritativeAck(r) \/ IsEmptyStatusAck(r)
  \/ IsNackReason(r) \/ IsUnknownType(r)

\* The steps of the k-th HandleResponse: the log from its entry to the
\* entry of the next callback or the return of Run().
Entries == {"HandleResponse", "Timeout", "return"}
EntryOf(k) ==
  CHOOSE i \in 1..Len(log) :
    /\ log[i] = "HandleResponse"
    /\ Cardinality({j \in 1..i : log[j] = "HandleResponse"}) = k
EndOf(i) ==
  IF \E j \in (i+1)..Len(log) : log[j] \in Entries
    THEN (CHOOSE j \in (i+1)..Len(log) :
            log[j] \in Entries /\ \A h \in (i+1)..(j-1) : log[h] \notin Entries) - 1
    ELSE Len(log)
StepsOf(k) == SubSeq(log, EntryOf(k) + 1, EndOf(EntryOf(k)))
LastSteps == StepsOf(Len(delivered))

Has(steps, step) == \E i \in 1..Len(steps) : steps[i] = step
Before(steps, a, b) ==
  \E i, j \in 1..Len(steps) : i < j /\ steps[i] = a /\ steps[j] = b

\* The requests sent after the first: the queued-message fetches.
Fetches == Len(sent) - 1

\* ------------------------------------------------------------------------
\* C1: over a whole transaction Terminate() is called exactly once: it has
\* been called once as soon as a terminal response (transport error,
\* broadcast, non-OK response code, authoritative ack, empty status-messages
\* ack, nack, unknown type) has been handled, not before, and never twice;
\* a run that entered Run() returns after exactly one call.
C1_TerminateExactlyOnce ==
  /\ terminate_calls <= 1
  /\ (response # NULL /\ IsTerminal(R)) => terminate_calls = 1
  /\ (response = NULL \/ ~IsTerminal(R)) => terminate_calls = 0
  /\ (run_calls > 0 /\ pc = "returned") => terminate_calls = 1

\* A run that drained, ended and returned.
C1_Witness ==
  /\ pc = "returned" /\ run_calls = 1 /\ terminate_calls = 1
  /\ Len(delivered) >= 2 /\ IsTerminal(R)

\* C2: at most one request is outstanding; every request sent before it has
\* had its completion callback run; an outstanding request and a pending
\* ack-timer timeout never coexist.
C2_OneOutstanding ==
  /\ Len(outstanding) <= 1
  /\ Len(sent) = Len(delivered) + Len(outstanding)
  /\ ~(outstanding # <<>> /\ timers # <<>>)

\* The second queued-message fetch is outstanding.
C2_Witness == Len(outstanding) = 1 /\ Len(sent) = 3 /\ Len(delivered) = 2

\* C3: a call that fails before the submission (the name resolves neither
\* as a name nor as a hex or decimal id, the parameter has no request schema
\* for the mode, or the arguments do not build a message) never submits a
\* request, never records a pending request, never calls Run(), and ends
\* with the usage status.
C3_NameResolves(c) ==
  \/ GetDescriptorByName(c.pid_name, c.uid.manufacturer_id) # NULL
  \/ /\ PrefixedHexStringToInt(c.pid_name) >= 0
     /\ GetDescriptorByValue(PrefixedHexStringToInt(c.pid_name),
                             c.uid.manufacturer_id) # NULL
  \/ /\ StringToInt(c.pid_name) >= 0
     /\ GetDescriptorByValue(StringToInt(c.pid_name),
                             c.uid.manufacturer_id) # NULL

C3_Resolved(c) ==
  CHOOSE d \in PidStore(c.uid.manufacturer_id) :
    \/ d.name = c.pid_name
    \/ d.value = PrefixedHexStringToInt(c.pid_name)
    \/ d.value = StringToInt(c.pid_name)

C3_RequestSchema(c) ==
  IF c.is_set THEN C3_Resolved(c).set_request ELSE C3_Resolved(c).get_request

C3_FailsBeforeSubmission(c) ==
  \/ ~C3_NameResolves(c)
  \/ C3_RequestSchema(c) = NULL
  \/ BuildMessage(C3_RequestSchema(c), c.inputs) = NULL

C3_NoSubmissionOnUsageError ==
  C3_FailsBeforeSubmission(call) =>
    /\ sent = <<>> /\ outstanding = <<>> /\ timers = <<>>
    /\ m_pending_request = NULL
    /\ run_calls = 0
    /\ pc \in {"GetDescriptor", "SelectSchema", "BuildMessage",
               "returned", "exited"}
    /\ status \in {NULL, Ptr(EXIT_USAGE)}
    /\ (pc \in {"returned", "exited"} => status = Ptr(EXIT_USAGE))

\* The arguments did not build a message for a known schema.
C3_Witness ==
  /\ C3_FailsBeforeSubmission(call)
  /\ pc = "returned" /\ descriptor # NULL /\ message = NULL
  /\ status = Ptr(EXIT_USAGE)

\* C4: after a transport error (a non-empty error text) the status that
\* PerformRequestAndWait returns differs from the status of a successful
\* transaction.
C4_TransportErrorStatusDiffers ==
  (pc = "returned" /\ response # NULL /\ IsTransportError(R))
    => status # Ptr(EXIT_OK)

\* C5 as claimed: for the responses [AckTimer(d), Ack(queued-message
\* parameter, payload)] to a request for any parameter, the second response
\* is authoritative: it is handed to HandleAckResponse, the loop is
\* terminated and exactly one fetch was issued in total.
C5_Scenario ==
  /\ Len(delivered) = 2
  /\ delivered[1].error = ""
  /\ delivered[1].response_code = RDM_COMPLETED_OK
  /\ delivered[1].response_type = RDM_ACK_TIMER
  /\ IsAck(R) /\ R.pid_value = PID_QUEUED_MESSAGE

C5_Authoritative ==
  /\ Has(LastSteps, "HandleAckResponse")
  /\ Has(LastSteps, "Terminate")
  /\ ~Has(LastSteps, "FetchQueuedMessage")
  /\ Fetches = 1
  /\ terminate_calls = 1

C5_AnyParameter == C5_Scenario => C5_Authoritative

\* C5 as amended: for the responses [AckTimer(d), Ack(queued-message
\* parameter, payload)] to a request for the queued-message parameter the
\* second response is authoritative (handed to HandleAckResponse, loop
\* terminated, one fetch in total); to a request for any other parameter it
\* is a queue signal: a second fetch is issued and the loop is not
\* terminated.
C5_QueuedMessageRequest ==
  C5_Scenario =>
    IF Pending.pid_value = PID_QUEUED_MESSAGE
      THEN C5_Authoritative
      ELSE /\ LastSteps = <<"FetchQueuedMessage">>
           /\ Fetches = 2
           /\ terminate_calls = 0

\* The reply to the fetch was decoded and printed, and Run() returned.
C5_Witness ==
  /\ C5_Scenario /\ Pending.pid_value = PID_QUEUED_MESSAGE
  /\ Has(LastSteps, "cout_PrettyPrintMessage")
  /\ pc = "returned"

\* C6: the HandleResponse of an AckTimer response calls no Terminate and
\* submits nothing; it registers exactly one timeout; no request is sent
\* while a timeout is pending, and the timeout, when it fires, sends exactly
\* one GET of the queued-message parameter.
C6_AckTimerStep ==
  (Len(delivered') = Len(delivered) + 1 /\ IsAckTimer(R)') =>
    /\ terminate_calls' = terminate_calls
    /\ sent' = sent
    /\ outstanding' = <<>>
    /\ timers' = <<[delay |-> R.m_param, callback |-> "FetchQueuedMessage"]>>'
    /\ LastSteps' = <<"RegisterSingleTimeout">>

C6_TimeoutStep ==
  /\ (timers # <<>> /\ timers' = timers) => sent' = sent
  /\ (timers # <<>> /\ timers' # timers) =>
       /\ timers' = <<>>
       /\ Len(sent') = Len(sent) + 1
       /\ sent'[Len(sent')].command = "RDMGet"
       /\ sent'[Len(sent')].pid = PID_QUEUED_MESSAGE
       /\ Len(delivered') = Len(delivered)

C6_AckTimerDefersFetch == [][C6_AckTimerStep /\ C6_TimeoutStep]_vars

\* The timeout of an ack timer has fired and its fetch is outstanding.
C6_Witness ==
  /\ response # NULL /\ IsAckTimer(R)
  /\ timers = <<>> /\ Len(outstanding) = 1
  /\ Len(sent) = Len(delivered) + 1
  /\ log[Len(log)] = "FetchQueuedMessage" /\ log[Len(log) - 1] = "Timeout"

\* C7 as claimed: for every N, after N responses Ack(different parameter,
\* non-empty payload) exactly N fetches have been issued and Terminate has
\* not been called; a following Ack(original parameter) is handled as
\* authoritative and calls Terminate, once, with the N fetches issued.
C7_QueueAck(d) ==
  /\ d.error = "" /\ d.response_code = RDM_COMPLETED_OK
  /\ d.response_type = RDM_ACK /\ d.ack_other_pid /\ d.ack_data

C7_QueueAcks(n) == \A i \in 1..n : C7_QueueAck(delivered[i])

C7_Draining ==
  (sent # <<>> /\ C7_QueueAcks(Len(delivered))) =>
    /\ Fetches = Len(delivered)
    /\ terminate_calls = 0

C7_Answer ==
  (delivered # <<>> /\ C7_QueueAcks(Len(delivered) - 1)
   /\ IsAck(R) /\ R.pid_value = Pending.pid_value) =>
    /\ Fetches = Len(delivered) - 1
    /\ terminate_calls = 1
    /\ Has(LastSteps, "HandleAckResponse")
    /\ Has(LastSteps, "Terminate")

C7_AnyRequest == C7_Draining /\ C7_Answer

\* C7 as amended: the claim, for a request whose parameter is not the
\* queued-message parameter; for a request for the queued-message parameter
\* the first ack, whatever its parameter, is authoritative and ends the
\* transaction with no fetch.
C7_NotQueuedMessageRequest ==
  /\ (m_pending_request # NULL /\ Pending.pid_value # PID_QUEUED_MESSAGE)
       => C7_Draining
  /\ C7_Answer
  /\ (delivered # <<>> /\ Pending.pid_value = PID_QUEUED_MESSAGE
      /\ C7_QueueAck(delivered[1])) =>
       /\ Len(delivered) = 1 /\ Fetches = 0 /\ terminate_calls = 1

\* Two queue signals, then the answer, and Run() returned.
C7_Witness ==
  /\ Len(delivered) = 3 /\ C7_QueueAcks(2)
  /\ IsAck(R) /\ R.pid_value = Pending.pid_value
  /\ Fetches = 2 /\ pc = "returned"

\* C8 as claimed: Ack(status-messages parameter, empty payload) as the
\* first response to a request for any parameter prints the
\* empty-status-messages notice, issues no fetch and terminates the loop.
C8_Scenario ==
  /\ Len(delivered) = 1 /\ IsAck(R)
  /\ R.pid_value = PID_STATUS_MESSAGES /\ R.rdm_data = <<>>

C8_Ends ==
  /\ Fetches = 0 /\ outstanding = <<>> /\ timers = <<>>
  /\ Has(LastSteps, "Terminate") /\ terminate_calls = 1

C8_AnyParameter ==
  C8_Scenario => Has(LastSteps, "cout_EmptyStatusMessages") /\ C8_Ends

\* C8 as amended: Ack(status-messages parameter, empty payload) as the
\* first response issues no fetch and terminates the loop; the
\* empty-status-messages notice is printed when the request was for a
\* parameter other than the status-messages and the queued-message
\* parameter, and for these two the ack is handed to HandleAckResponse
\* instead.
C8_OtherParameter ==
  C8_Scenario =>
    /\ C8_Ends
    /\ IF Pending.pid_value \in {PID_STATUS_MESSAGES, PID_QUEUED_MESSAGE}
         THEN /\ ~Has(LastSteps, "cout_EmptyStatusMessages")
              /\ Has(LastSteps, "HandleAckResponse")
         ELSE /\ Has(LastSteps, "cout_EmptyStatusMessages")
              /\ ~Has(LastSteps, "HandleAckResponse")

\* The notice was printed and Run() returned.
C8_Witness ==
  /\ C8_Scenario
  /\ Pending.pid_value \notin {PID_STATUS_MESSAGES, PID_QUEUED_MESSAGE}
  /\ Has(LastSteps, "cout_EmptyStatusMessages")
  /\ pc = "returned"

\* C9: a Broadcast response (RDM_WAS_BROADCAST, empty error text) only
\* terminates the loop: nothing is decoded or printed, no remaining-message
\* count, no fetch and no timeout; the transaction returns the success
\* status.
C9_Broadcast ==
  (response # NULL /\ IsBroadcast(R)) =>
    /\ LastSteps = <<"Terminate">>
    /\ terminate_calls = 1
    /\ outstanding = <<>> /\ timers = <<>>
    /\ Len(sent) = Len(delivered)
    /\ pc \in {"running", "returned"}
    /\ (pc = "returned" => status = Ptr(EXIT_OK))

\* A broadcast request has returned.
C9_Witness ==
  /\ response # NULL /\ IsBroadcast(R)
  /\ pc = "returned" /\ status = Ptr(EXIT_OK)

\* C10 as claimed: in every terminal branch but broadcast (transport error,
\* protocol error code, authoritative ack, empty status-messages ack, nack,
\* unknown type) the remaining-message count of the response is printed,
\* when it is not zero, before Terminate is called.
C10_Reported ==
  /\ R.message_count # 0 =>
       Before(LastSteps, "cout_MessagesRemaining", "Terminate")
  /\ R.message_count = 0 => ~Has(LastSteps, "cout_MessagesRemaining")
  /\ LastSteps[Len(LastSteps)] = "Terminate"

C10_EveryTerminalBranch ==
  (response # NULL /\ IsTerminal(R) /\ ~IsBroadcast(R)) => C10_Reported

\* C10 as amended: in the terminal branches authoritative ack, empty
\* status-messages ack, nack and unknown type the remaining-message count
\* is printed, when it is not zero, before Terminate is called; after a
\* transport error or a protocol error code it is not printed at all.
C10_AckNackUnknownBranches ==
  /\ (response # NULL
      /\ (IsAuthoritativeAck(R) \/ IsEmptyStatusAck(R)
          \/ IsNackReason(R) \/ IsUnknownType(R))) => C10_Reported
  /\ (response # NULL /\ (IsTransportError(R) \/ IsProtocolError(R))) =>
       /\ ~Has(LastSteps, "PrintRemainingMessages")
       /\ ~Has(LastSteps, "cout_MessagesRemaining")
       /\ LastSteps[Len(LastSteps)] = "Terminate"

\* A nack with messages remaining was reported and Run() returned.
C10_Witness ==
  /\ response # NULL /\ IsNackReason(R) /\ R.message_count = 1
  /\ Before(LastSteps, "cout_MessagesRemaining", "Terminate")
  /\ pc = "returned"

\* C11: the HandleResponse of a NackReason response prints the reason, then
\* the remaining-message count if and only if it is not zero, then calls
\* Terminate, in this order and in the one callback; it sends no fetch and
\* registers no timeout.
C11_NackSteps ==
  (response # NULL /\ IsNackReason(R)) =>
    /\ LastSteps[1] = "cout_RequestNACKed"
    /\ LastSteps[Len(LastSteps)] = "Terminate"
    /\ Count(LastSteps, "cout_RequestNACKed") = 1
    /\ Count(LastSteps, "Terminate") = 1
    /\ Count(LastSteps, "cout_MessagesRemaining")
         = (IF R.message_count # 0 THEN 1 ELSE 0)
    /\ R.message_count # 0 =>
         /\ Before(LastSteps, "cout_RequestNACKed", "cout_MessagesRemaining")
         /\ Before(LastSteps, "cout_MessagesRemaining", "Terminate")
    /\ ~Has(LastSteps, "FetchQueuedMessage")
    /\ ~Has(LastSteps, "RegisterSingleTimeout")
    /\ outstanding = <<>> /\ timers = <<>>
    /\ Len(sent) = Len(delivered)

\* A nack with no message remaining ended a drained transaction.
C11_Witness ==
  /\ response # NULL /\ IsNackReason(R) /\ R.message_count = 0
  /\ LastSteps = <<"cout_RequestNACKed", "PrintRemainingMessages", "Terminate">>
  /\ Len(delivered) = 2 /\ pc = "returned"

\* C12: a transaction that ends on a protocol error code of the device, on
\* a nack or on an unknown response type returns the success status.
C12_RejectionReturnsSuccess ==
  (pc = "returned" /\ response # NULL
   /\ (IsProtocolError(R) \/ IsNackReason(R) \/ IsUnknownType(R)))
    => status = Ptr(EXIT_OK)

\* A transaction ended by an unknown response type has returned.
C12_Witness ==
  /\ pc = "returned" /\ response # NULL /\ IsUnknownType(R)
  /\ status = Ptr(EXIT_OK)

\* C13: an authoritative ack whose parameter has no descriptor, whose
\* response schema is absent or whose payload does not decode is not fatal:
\* a warning is logged, nothing is pretty-printed, no fetch is sent, the
\* remaining-message count is reported, Terminate is called once and the
\* status is success.  An authoritative ack that decodes is printed.
C13_Decodes(r) ==
  LET d == GetDescriptorByValue(r.pid_value, Pending.uid.manufacturer_id)
  IN  IF d = NULL THEN FALSE
      ELSE LET schema == IF r.set_command THEN Deref(d).set_response
                                          ELSE Deref(d).get_response
           IN  IF schema = NULL THEN FALSE
               ELSE DeserializeMessage(schema, r.rdm_data) # NULL

C13_Warnings ==
  {"OLA_WARN_UnknownPID", "OLA_WARN_UnknownResponseMessage",
   "OLA_WARN_UnableToInflate"}

C13_DecodeWarningNotFatal ==
  (response # NULL /\ IsAuthoritativeAck(R)) =>
    /\ Has(LastSteps, "cout_PrettyPrintMessage") <=> C13_Decodes(R)
    /\ (\E w \in C13_Warnings : Has(LastSteps, w)) <=> ~C13_Decodes(R)
    /\ ~Has(LastSteps, "FetchQueuedMessage")
    /\ ~Has(LastSteps, "RegisterSingleTimeout")
    /\ outstanding = <<>> /\ timers = <<>>
    /\ C10_Reported
    /\ Count(LastSteps, "Terminate") = 1
    /\ terminate_calls = 1
    /\ (pc = "returned" => status = Ptr(EXIT_OK))

\* An ack whose parameter the store does not know ended the transaction.
C13_Witness ==
  /\ response # NULL /\ IsAuthoritativeAck(R) /\ ~C13_Decodes(R)
  /\ Has(LastSteps, "OLA_WARN_UnknownPID")
  /\ R.message_count = 1
  /\ pc = "returned" /\ status = Ptr(EXIT_OK)

\* C14: while Run() is blocked something is always pending: a request, a
\* timeout, or the return after Terminate().  With every completion
\* callback and every timeout eventually run, a response that is neither an
\* AckTimer nor a queue-signal ack leads to the return of Run(), and a
\* transaction that entered Run() returns unless the responses delivered
\* (the bound of the model) end with one that keeps it draining.
C14_SomethingPending ==
  pc = "running" =>
    outstanding # <<>> \/ timers # <<>> \/ terminate_calls > 0

C14_StillDraining ==
  /\ Len(delivered) = MaxResponses
  /\ IsAckTimer(R) \/ IsQueueSignalAck(R)

C14_Terminates ==
  /\ []C14_SomethingPending
  /\ (response # NULL /\ IsTerminal(R)) ~> (pc = "returned")
  /\ (pc = "running") ~> (pc = "returned" \/ C14_StillDraining)

\* An ack timer, then a queue signal, then the end: Run() returned.
C14_Witness ==
  /\ pc = "returned" /\ Len(delivered) = 3
  /\ delivered[1].response_type = RDM_ACK_TIMER
  /\ C7_QueueAck(delivered[2])
  /\ terminate_calls = 1

\* ---------------------------------------------------------------------
\* C15: for a response with no error, the code RDM_COMPLETED_OK and the type
\* RDM_ACK, HandleResponse fetches the queued messages, and does not
\* terminate, exactly when the ack's parameter differs from the pending
\* one, the pending one is not QUEUED_MESSAGE, and the ack is not an empty
\* STATUS_MESSAGES; every other ack terminates in the same callback and
\* fetches nothing.
C15_MustFetch(r) ==
  /\ r.pid_value # Pending.pid_value
  /\ Pending.pid_value # PID_QUEUED_MESSAGE
  /\ (r.pid_value # PID_STATUS_MESSAGES \/ r.rdm_data # <<>>)

C15_FetchIff ==
  (response # NULL /\ IsAck(R)) =>
    IF C15_MustFetch(R)
      THEN /\ LastSteps = <<"FetchQueuedMessage">>
           /\ terminate_calls = 0
           /\ Len(sent) = Len(delivered) + 1
           /\ Len(outstanding) = 1
      ELSE /\ Count(LastSteps, "Terminate") = 1
           /\ ~Has(LastSteps, "FetchQueuedMessage")
           /\ terminate_calls = 1
           /\ Len(sent) = Len(delivered)
           /\ outstanding = <<>>

\* An ack for STATUS_MESSAGES that carries data, to a request for another
\* parameter: a fetch is outstanding and nothing has terminated.
C15_Witness ==
  /\ response # NULL
  /\ IsAck(R)
  /\ R.pid_value = PID_STATUS_MESSAGES
  /\ R.rdm_data # <<>>
  /\ Pending.pid_value \notin {PID_STATUS_MESSAGES, PID_QUEUED_MESSAGE}
  /\ Len(delivered) = 2
  /\ Len(sent) = 3
  /\ terminate_calls = 0

\* ---------------------------------------------------------------------
\* C16: once a queued-message fetch was issued, Terminate() is called only
\* on an authoritative ack, a nack, an unknown response type, a transport
\* error or an empty STATUS_MESSAGES ack.
C16_Left == Fetches >= 1 /\ terminate_calls > 0

C16_ListedExits ==
  C16_Left =>
    \/ IsAuthoritativeAck(R)
    \/ IsNackReason(R)
    \/ IsUnknownType(R)
    \/ IsTransportError(R)
    \/ IsEmptyStatusAck(R)

\* C16 with the two exits the list leaves out: a response code other than
\* RDM_COMPLETED_OK, RDM_WAS_BROADCAST included, ends the draining as well;
\* an ack timer and an ack that signals more messages never do.
C16_ExitsWithResponseCodes ==
  /\ C16_Left =>
        \/ IsAuthoritativeAck(R)
        \/ IsNackReason(R)
        \/ IsUnknownType(R)
        \/ IsTransportError(R)
        \/ IsEmptyStatusAck(R)
        \/ IsProtocolError(R)
        \/ IsBroadcast(R)
  /\ (Fetches >= 1 /\ response # NULL
        /\ (IsAckTimer(R) \/ IsQueueSignalAck(R))) => terminate_calls = 0
  /\ (Fetches >= 1 /\ response # NULL
        /\ (IsProtocolError(R) \/ IsBroadcast(R))) => terminate_calls = 1

\* The answer to a fetch carries a response code that is not
\* RDM_COMPLETED_OK, and the transaction has ended.
C16_Witness ==
  /\ pc = "returned"
  /\ Fetches >= 1
  /\ terminate_calls = 1
  /\ IsProtocolError(R)

\* ---------------------------------------------------------------------
\* C17: every queued-message fetch, after an ack timer or after an ack that
\* signals more messages, for a get or for a set, is a GET of
\* QUEUED_MESSAGE with the one byte 4 as data, to the universe, the UID
\* and the sub device recorded for the original request.
C17_Fetch ==
  [command |-> "RDMGet",
   universe |-> call.universe,
   uid |-> call.uid,
   sub_device |-> call.sub_device,
   pid |-> PID_QUEUED_MESSAGE,
   data |-> <<4>>]

C18_Outcome(r) ==
  IF r.error # "" THEN "TransportError"
  ELSE IF r.response_code = RDM_WAS_BROADCAST THEN "Broadcast"
  ELSE IF r.response_code # RDM_COMPLETED_OK THEN "ProtocolError"
  ELSE IF r.response_type = RDM_ACK_TIMER THEN "AckTimer"
  ELSE IF r.response_type = RDM_ACK THEN "Ack"
  ELSE IF r.response_type = RDM_NACK_REASON THEN "NackReason"
  ELSE "UnknownType"

\* The branches a callback's steps show it took.
C18_Branches(steps) ==
  {b \in {"TransportError", "Broadcast", "ProtocolError", "AckTimer", "Ack",
          "NackReason", "UnknownType"} :
     \/ b = "TransportError" /\ steps = <<"cerr_Error", "Terminate">>
     \/ b = "Broadcast" /\ steps = <<"Terminate">>
     \/ b = "ProtocolError" /\ steps = <<"cerr_ResponseCode", "Terminate">>
     \/ b = "AckTimer" /\ steps = <<"RegisterSingleTimeout">>
     \/ b = "Ack" /\ \/ Has(steps, "HandleAckResponse")
                     \/ Has(steps, "FetchQueuedMessage")
                     \/ Has(steps, "cout_EmptyStatusMessages")
     \/ b = "NackReason" /\ Has(steps, "cout_RequestNACKed")
     \/ b = "UnknownType" /\ Has(steps, "cout_UnknownResponseType")}

C18_Precedence ==
  /\ \A k \in 1..Len(delivered) :
       LET d == delivered[k] IN
       C18_Branches(StepsOf(k)) = {C18_Outcome(d)}
  /\ response # NULL =>
       /\ C18_Branches(LastSteps) = {C18_Outcome(R)}
       /\ C18_Outcome(R) = C18_Outcome(delivered[Len(delivered)])

\* A response with an error text, the code RDM_WAS_BROADCAST and the type
\* RDM_ACK: handled as a transport error.
C18_Witness ==
  /\ response # NULL
  /\ R.error # ""
  /\ R.response_code = RDM_WAS_BROADCAST
  /\ R.response_type = RDM_ACK
  /\ LastSteps = <<"cerr_Error", "Terminate">>

\* ---------------------------------------------------------------------
\* C19: in a call that passes the resolution and the building of the
\* message, the pending request is recorded before the initial request is
\* submitted, exactly one initial request is submitted (a SET iff is_set,
\* else a GET, for the resolved parameter), and Run() is called exactly
\* once and only after that submission; HandleResponse never runs before
\* the pending request is recorded.
C19_Index(step) == CHOOSE i \in 1..Len(log) : log[i] = step
C19_Command == IF call.is_set THEN "RDMSet" ELSE "RDMGet"
C19_Submissions ==
  Cardinality({i \in 1..Len(log) : log[i] \in {"RDMGet", "RDMSet"}})

C19_RecordSubmitRun ==
  /\ run_calls \in {0, 1}
  /\ C19_Submissions <= 1
  /\ C19_Submissions = 1 <=> sent # <<>>
  /\ Len(sent) = C19_Submissions + Count(log, "FetchQueuedMessage")
  /\ sent # <<>> =>
       /\ m_pending_request # NULL
       /\ sent[1].command = C19_Command
       /\ sent[1].pid = C3_Resolved(call).value
       /\ Has(log, C19_Command)
       /\ C19_Index("m_pending_request") < C19_Index(C19_Command)
       /\ \A i \in 2..Len(sent) : Has(log, "Run")
  /\ run_calls = Count(log, "Run")
  /\ run_calls = 1 =>
       /\ sent # <<>>
       /\ C19_Index(C19_Command) < C19_Index("Run")
  /\ \A i \in 1..Len(log) :
       log[i] \in {"HandleResponse", "Timeout"} =>
         /\ run_calls = 1
         /\ C19_Index("Run") < i
         /\ C19_Index("m_pending_request") < i
  /\ ~C3_FailsBeforeSubmission(call) /\ pc \in {"running", "returned"} =>
       run_calls = 1
  /\ delivered # <<>> => m_pending_request # NULL /\ run_calls = 1

\* A set is submitted and Run() has been entered; no response yet.
C19_Witness ==
  /\ pc = "running"
  /\ call.is_set
  /\ run_calls = 1
  /\ Len(sent) = 1
  /\ sent[1].command = "RDMSet"
  /\ response = NULL

\* ---------------------------------------------------------------------
\* C20: the pending request (universe, UID, sub device, parameter) is
\* written only by PerformRequestAndWait, before the initial submission;
\* HandleResponse, the ack-timer callback and FetchQueuedMessage leave the
\* four fields as they are, so that after any number of fetches the
\* recorded parameter is still the one the call resolved.
C20_AsRecorded ==
  m_pending_request # NULL =>
    Pending = [universe |-> call.universe,
               uid |-> call.uid,
               sub_device |-> call.sub_device,
               pid_value |-> C3_Resolved(call).value]

C20_WrittenOnce ==
  m_pending_request' # m_pending_request =>
    /\ m_pending_request = NULL
    /\ sent = <<>>
    /\ run_calls = 0
    /\ delivered = <<>>
    /\ ~Has(log, "m_pending_request")

C20_PendingRequestFrame ==
  /\ []C20_AsRecorded
  /\ [][C20_WrittenOnce]_vars

\* Two fetches, one by the ack timer and one by an ack, for a request for
\* a parameter other than QUEUED_MESSAGE.
C20_Witness ==
  /\ Fetches = 2
  /\ Has(log, "Timeout")
  /\ Len(delivered) = 2
  /\ C7_QueueAck(delivered[2])
  /\ Pending.pid_value # PID_QUEUED_MESSAGE
  /\ Pending.pid_value = C3_Resolved(call).value

\* ---------------------------------------------------------------------
\* C21: in every state in which Terminate() has been called no request is
\* outstanding and no ack-timer callback is pending, and afterwards no
\* request is submitted and no timer is registered: a HandleResponse
\* either terminates, or submits one fetch, or registers one timer, and
\* never two of these.
C21_Effects(steps) ==
  Count(steps, "Terminate") + Count(steps, "FetchQueuedMessage")
    + Count(steps, "RegisterSingleTimeout")

C21_NothingPending ==
  /\ terminate_calls > 0 => outstanding = <<>> /\ timers = <<>>
  /\ \A k \in 1..Len(delivered) : C21_Effects(StepsOf(k)) = 1
  /\ Len(outstanding) + Len(timers) + terminate_calls <= 1

C21_NothingAfterwards ==
  terminate_calls > 0 =>
    /\ sent' = sent
    /\ outstanding' = outstanding
    /\ timers' = timers
    /\ delivered' = delivered
    /\ terminate_calls' = terminate_calls

C21_OneEffect ==
  delivered' # delivered =>
    (terminate_calls' - terminate_calls) + (Len(sent') - Len(sent))
      + (Len(timers') - Len(timers)) = 1

C21_TerminateIsLast ==
  /\ []C21_NothingPending
  /\ [][C21_NothingAfterwards /\ C21_OneEffect]_vars

\* An ack timer, its fetch, a fetch after an ack, then a nack: Terminate()
\* was called, Run() has returned, and nothing is left.
C21_Witness ==
  /\ pc = "returned"
  /\ terminate_calls = 1
  /\ Len(delivered) = 3
  /\ Len(sent) = 3
  /\ delivered[1].response_type = RDM_ACK_TIMER
  /\ C7_QueueAck(delivered[2])
  /\ IsNackReason(R)
  /\ outstanding = <<>>
  /\ timers = <<>>

\* ---------------------------------------------------------------------
\* C22: in dmx-trigger, NewDmx hands a received frame to the trigger if
\* and only if the universe of the frame is the configured universe and
\* the error text is empty; a frame of another universe, or one with an
\* error, never reaches the trigger.
C22_Reaches(frame) ==
  frame.universe = our_universe[1] /\ frame.error = ""

C22_Forwarded == SelectSeq(dmx_received, C22_Reaches)

====
